---- MODULE Spec2Model ----
(***************************************************************************)
(* autoMEW: the batch distributor (distribute_pol.py) and the wallet       *)
(* generator (create_wallet.py), modelled as sequential state machines.    *)
(*                                                                         *)
(* Amounts are Python integers (unbounded), so no wrap-around is modelled; *)
(* the values drawn are small so that the arithmetic stays exact.          *)
(***************************************************************************)
EXTENDS Integers, Sequences, FiniteSets, TLC

VARIABLES
    pc,                  \* position of the distributor process
    key_file,            \* privatekey.txt: [exists, content]
    wallet_files,        \* the all_wallets_*.json files: set of [ctime, text]
    test_mode,           \* args.test
    amount,              \* args.amount, expressed in wei
    sender_private_key,  \* distribute_pol local
    latest_file,         \* distribute_pol local (ctime of the chosen file)
    recipient_addresses, \* distribute_pol local
    amount_wei,          \* distribute_pol local
    nonce,               \* distribute_pol local
    sender_balance,      \* distribute_pol local
    gas_price,           \* distribute_pol local
    i,                   \* loop index of enumerate(recipient_addresses, 1)
    transaction,         \* the dict built for the current recipient
    signed_txn,          \* result of sign_transaction
    tx_hash,             \* result of send_raw_transaction
    log_message,         \* message of the current iteration
    exc,                 \* the exception being handled, or NoValue
    log_exists,          \* the log file exists on disk
    log_buf,             \* entries written but still in the process buffer
    log_disk,            \* entries that reached the file on disk
    exit_status,         \* process exit status, NoValue while running
    error,               \* kind of the fatal error, NoValue if none
    base_nonce,          \* history: the transaction count read in preflight, -1 before
    trace,               \* history: calls made by the send loop
    built,               \* history: transactions built, one per iteration
    k_pc,                \* load_private_key alone: "call" or "returned"
    k_file,              \* load_private_key alone: content of privatekey.txt
    kf_result,           \* load_private_key alone: what the call produced
    g_pc,                \* position of the generator process
    g_count,             \* args.count
    g_sample,            \* args.sample
    g_i,                 \* loop index in generate_multiple_wallets
    g_clock,             \* wall clock, in seconds
    g_timestamp,         \* timestamp taken by generate_multiple_wallets
    all_wallets,         \* generate_multiple_wallets local
    public_addresses,    \* generate_multiple_wallets local
    g_files              \* files written by the generator: set of [name, text]

dvars == <<pc, key_file, wallet_files, test_mode, amount, sender_private_key,
           latest_file, recipient_addresses, amount_wei, nonce, sender_balance,
           gas_price, i, transaction, signed_txn, tx_hash, log_message, exc,
           log_exists, log_buf, log_disk, exit_status, error, base_nonce,
           trace, built>>

kvars == <<k_pc, k_file, kf_result>>

gvars == <<g_pc, g_count, g_sample, g_i, g_clock, g_timestamp, all_wallets,
           public_addresses, g_files>>

vars == <<dvars, kvars, gvars>>

NoValue == "none"
NoFile == [exists |-> FALSE, content |-> <<>>]
File(content) == [exists |-> TRUE, content |-> content]

-----------------------------------------------------------------------------
(* Bounds of the model *)

MaxRecipients == 2
MaxPrice == 2
MaxAmount == 2
KeySlack == 1
MaxCount == 3
MaxClock == 2

-----------------------------------------------------------------------------
(* Constants of the program *)

GAS_LIMIT == 21000
POLYGON_CHAIN_ID == 137
KEY_LENGTH == 66
HEX_LENGTH == 64

-----------------------------------------------------------------------------
(* Strings are sequences of one-character strings *)

HexChars == {"0", "1", "a", "F"}
Whitespace == {" ", "\n"}

RECURSIVE Repeat(_, _)
Repeat(c, n) == IF n <= 0 THEN <<>> ELSE <<c>> \o Repeat(c, n - 1)

\* str.strip(): drop leading and trailing whitespace
RECURSIVE LStrip(_)
LStrip(s) == IF s # <<>> /\ Head(s) \in Whitespace THEN LStrip(Tail(s)) ELSE s

RECURSIVE RStrip(_)
RStrip(s) ==
    IF s # <<>> /\ s[Len(s)] \in Whitespace
    THEN RStrip(SubSeq(s, 1, Len(s) - 1)) ELSE s

Strip(s) == RStrip(LStrip(s))

\* ''.join(s.split()): drop every whitespace character
JoinSplit(s) == SelectSeq(s, LAMBDA c : c \notin Whitespace)

StartsWith0x(s) == Len(s) >= 2 /\ s[1] = "0" /\ s[2] = "x"

-----------------------------------------------------------------------------
(* load_private_key *)

\* The outcome of a call: a returned value or a raised exception
Return(v) == [ok |-> TRUE, value |-> v]
Raise(kind) == [ok |-> FALSE, value |-> kind]

Prefixed(s) == IF StartsWith0x(s) THEN s ELSE <<"0", "x">> \o s

load_private_key(file) ==
    IF ~file.exists THEN Raise("MissingCredentialFile")
    ELSE LET private_key == Prefixed(JoinSplit(Strip(file.content)))
         IN  IF Len(private_key) # KEY_LENGTH
             THEN Raise("InvalidPrivateKeyFormat")
             ELSE Return(private_key)

\* w3.eth.account.from_key: the library decodes the hex digits of the key
from_key(private_key) ==
    IF \A k \in 3..Len(private_key) : private_key[k] \in HexChars
    THEN Return("0xSender")
    ELSE Raise("NonHexadecimalDigit")

-----------------------------------------------------------------------------
(* JSON files: a text is the list of the members of each object, in the    *)
(* order json.dump writes them; json.load rebuilds the dicts.              *)

WalletKeys == <<"wallet_number", "public_key", "private_key", "mnemonic", "created_at">>
AddressesKeys == <<"addresses", "count", "created_at">>

DumpObject(d, keys) == [k \in 1..Len(keys) |-> <<keys[k], d[keys[k]]>>]

LoadObject(members) ==
    [key \in {members[k][1] : k \in 1..Len(members)} |->
        LET last == CHOOSE k \in 1..Len(members) :
                        /\ members[k][1] = key
                        /\ \A m \in (k + 1)..Len(members) : members[m][1] # key
        IN  members[last][2]]

json_dump_list(ws) == [k \in 1..Len(ws) |-> DumpObject(ws[k], WalletKeys)]
json_load_list(text) == [k \in 1..Len(text) |-> LoadObject(text[k])]

\* [wallet['public_key'] for wallet in wallets_data]
public_keys_of(wallets_data) ==
    [k \in 1..Len(wallets_data) |-> wallets_data[k]["public_key"]]

-----------------------------------------------------------------------------
(* Addresses *)

Addrs == {"0xAb01", "0xcd02", "zz"}

is_address(a) == a \in {"0xAb01", "0xab01", "0xCd02", "0xcd02"}

\* Web3.to_checksum_address
to_checksum_address(a) ==
    IF ~is_address(a) THEN Raise("InvalidAddress")
    ELSE IF a \in {"0xAb01", "0xab01"} THEN Return("0xAb01")
    ELSE Return("0xCd02")

-----------------------------------------------------------------------------
(* Inputs of a distributor run *)

RECURSIVE SeqsUpTo(_, _)
SeqsUpTo(S, n) ==
    IF n = 0 THEN {<<>>}
    ELSE LET shorter == SeqsUpTo(S, n - 1)
         IN  shorter \cup {Append(s, x) : s \in {t \in shorter : Len(t) = n - 1}, x \in S}

RecipientLists == SeqsUpTo(Addrs, MaxRecipients)

StoredWallet(k, a) ==
    [wallet_number |-> k, public_key |-> a, private_key |-> "key",
     mnemonic |-> "words", created_at |-> 0]

WalletsText(rs) == json_dump_list([k \in 1..Len(rs) |-> StoredWallet(k, rs[k])])

ValidKey == Repeat("a", HEX_LENGTH)
KeyFiles ==
    { NoFile,
      File(ValidKey \o <<"\n">>),
      File(<<"0", "x">> \o ValidKey),
      File(Repeat("a", HEX_LENGTH - 1)),
      File(Repeat("g", HEX_LENGTH)) }

Amounts == {0, 1, MaxAmount}
Prices == {1, MaxPrice}
Nonces == {0, 7}
Balances ==
    { 0, GAS_LIMIT + 1, 2 * (GAS_LIMIT + 1) - 1, 2 * (GAS_LIMIT + 1),
      (MaxRecipients + 1) * (MaxAmount + MaxPrice * GAS_LIMIT) }

DInit ==
    /\ pc = "import"
    /\ key_file \in KeyFiles
    /\ \E rs \in RecipientLists :
          wallet_files \in { {}, { [ctime |-> 1, text |-> WalletsText(<<"zz">>)],
                                   [ctime |-> 2, text |-> WalletsText(rs)] } }
    /\ test_mode \in BOOLEAN
    /\ amount \in Amounts
    /\ sender_private_key = NoValue
    /\ latest_file = NoValue
    /\ recipient_addresses = <<>>
    /\ amount_wei = 0
    /\ nonce = 0
    /\ sender_balance = 0
    /\ gas_price = 0
    /\ i = 0
    /\ transaction = NoValue
    /\ signed_txn = NoValue
    /\ tx_hash = NoValue
    /\ log_message = NoValue
    /\ exc = NoValue
    /\ log_exists = FALSE
    /\ log_buf = <<>>
    /\ log_disk = <<>>
    /\ exit_status = NoValue
    /\ error = NoValue
    /\ base_nonce = -1
    /\ trace = <<>>
    /\ built = <<>>

DIdle ==
    /\ pc = "idle"
    /\ key_file = NoFile
    /\ wallet_files = {}
    /\ test_mode = FALSE
    /\ amount = 0
    /\ sender_private_key = NoValue
    /\ latest_file = NoValue
    /\ recipient_addresses = <<>>
    /\ amount_wei = 0
    /\ nonce = 0
    /\ sender_balance = 0
    /\ gas_price = 0
    /\ i = 0
    /\ transaction = NoValue
    /\ signed_txn = NoValue
    /\ tx_hash = NoValue
    /\ log_message = NoValue
    /\ exc = NoValue
    /\ log_exists = FALSE
    /\ log_buf = <<>>
    /\ log_disk = <<>>
    /\ exit_status = NoValue
    /\ error = NoValue
    /\ base_nonce = -1
    /\ trace = <<>>
    /\ built = <<>>

KIdle ==
    /\ k_pc = "idle"
    /\ k_file = NoFile
    /\ kf_result = Raise(NoValue)

GIdle ==
    /\ g_pc = "idle"
    /\ g_count = 0
    /\ g_sample = FALSE
    /\ g_i = 0
    /\ g_clock = 0
    /\ g_timestamp = 0
    /\ all_wallets = <<>>
    /\ public_addresses = <<>>
    /\ g_files = {}

-----------------------------------------------------------------------------
(* The distributor: __main__ and distribute_pol *)

\* exit(1) of the two except clauses of __main__
Abort(kind) ==
    /\ pc' = "aborted"
    /\ error' = kind
    /\ exit_status' = 1

\* max(wallet_files, key=os.path.getctime)
get_latest_wallets_file(files) ==
    IF files = {} THEN Raise("NoRecipientFile")
    ELSE Return(CHOOSE f \in files : \A g \in files : g.ctime <= f.ctime)

\* Lines 144-146, as functions of the values they are computed from
total_gas(price) == price * GAS_LIMIT
total_per_transaction(wei, price) == wei + total_gas(price)
\* Line 146, with the gas left out of the cost
total_needed_without_gas(wei, price, recipients) == wei * Len(recipients)

total_needed(wei, price, recipients) ==
    total_per_transaction(wei, price) * Len(recipients)

\* Web3.to_wei(amount, 'ether'), the amount being expressed in wei already
to_wei(a) == a

Event(op, ok) == [op |-> op, wallet |-> i, nonce |-> nonce, ok |-> ok]

Entry(kind, wallet, status, recipient, info) ==
    [kind |-> kind, wallet |-> wallet, status |-> status,
     recipient |-> recipient, info |-> info]

\* log_file.write on a buffered text file: the text goes to the buffer of
\* the process, which the io library writes out when it is full
LogWrite(entry) ==
    \E full \in BOOLEAN :
        IF full
        THEN /\ log_disk' = log_disk \o Append(log_buf, entry)
             /\ log_buf' = <<>>
        ELSE /\ log_buf' = Append(log_buf, entry)
             /\ log_disk' = log_disk

\* Lines 18-20: the connection check made when the module is loaded
Connect ==
    /\ pc = "import"
    /\ \E connected \in BOOLEAN :
          IF connected
          THEN /\ pc' = "main"
               /\ UNCHANGED <<error, exit_status>>
          ELSE Abort("NetworkUnreachable")
    /\ UNCHANGED <<kvars, gvars>>
    /\ UNCHANGED <<key_file, wallet_files, test_mode, amount, sender_private_key,
                   latest_file, recipient_addresses, amount_wei, nonce,
                   sender_balance, gas_price, i, transaction, signed_txn, tx_hash,
                   log_message, exc, log_exists, log_buf, log_disk, base_nonce,
                   trace, built>>

\* Line 206
ValidateAmount ==
    /\ pc = "main"
    /\ IF amount <= 0
       THEN Abort("InvalidAmount")
       ELSE /\ pc' = "load_key"
            /\ UNCHANGED <<error, exit_status>>
    /\ UNCHANGED <<kvars, gvars>>
    /\ UNCHANGED <<key_file, wallet_files, test_mode, amount, sender_private_key,
                   latest_file, recipient_addresses, amount_wei, nonce,
                   sender_balance, gas_price, i, transaction, signed_txn, tx_hash,
                   log_message, exc, log_exists, log_buf, log_disk, base_nonce,
                   trace, built>>

\* Line 130
LoadPrivateKey ==
    /\ pc = "load_key"
    /\ LET r == load_private_key(key_file)
       IN  IF r.ok
           THEN /\ sender_private_key' = r.value
                /\ pc' = "load_recipients"
                /\ UNCHANGED <<error, exit_status>>
           ELSE /\ Abort(r.value)
                /\ UNCHANGED sender_private_key
    /\ UNCHANGED <<kvars, gvars>>
    /\ UNCHANGED <<key_file, wallet_files, test_mode, amount,
                   latest_file, recipient_addresses, amount_wei, nonce,
                   sender_balance, gas_price, i, transaction, signed_txn, tx_hash,
                   log_message, exc, log_exists, log_buf, log_disk, base_nonce,
                   trace, built>>

\* Lines 133-136
LoadRecipients ==
    /\ pc = "load_recipients"
    /\ LET r == get_latest_wallets_file(wallet_files)
       IN  IF r.ok
           THEN /\ latest_file' = r.value.ctime
                /\ recipient_addresses' = public_keys_of(json_load_list(r.value.text))
                /\ pc' = "preflight"
                /\ UNCHANGED <<error, exit_status>>
           ELSE /\ Abort(r.value)
                /\ UNCHANGED <<latest_file, recipient_addresses>>
    /\ UNCHANGED <<kvars, gvars>>
    /\ UNCHANGED <<key_file, wallet_files, test_mode, amount, sender_private_key,
                   amount_wei, nonce,
                   sender_balance, gas_price, i, transaction, signed_txn, tx_hash,
                   log_message, exc, log_exists, log_buf, log_disk, base_nonce,
                   trace, built>>

\* Lines 139-159: the amounts, the three network reads and the balance check
Preflight ==
    /\ pc = "preflight"
    /\ amount_wei' = to_wei(amount)
    /\ LET a == from_key(sender_private_key)
       IN  IF ~a.ok
           THEN /\ Abort(a.value)
                /\ UNCHANGED <<nonce, sender_balance, gas_price, base_nonce>>
           ELSE \E reachable \in BOOLEAN :
                  IF ~reachable
                  THEN /\ Abort("NetworkUnreachable")
                       /\ UNCHANGED <<nonce, sender_balance, gas_price, base_nonce>>
                  ELSE \E count \in Nonces, balance \in Balances, price \in Prices :
                       /\ nonce' = count
                       /\ base_nonce' = count
                       /\ sender_balance' = balance
                       /\ gas_price' = price
                       /\ IF balance < total_needed(to_wei(amount), price,
                                                    recipient_addresses)
                          THEN Abort("InsufficientBalance")
                          ELSE /\ pc' = "open_log"
                               /\ UNCHANGED <<error, exit_status>>
    /\ UNCHANGED <<kvars, gvars>>
    /\ UNCHANGED <<key_file, wallet_files, test_mode, amount, sender_private_key,
                   latest_file, recipient_addresses, i, transaction, signed_txn,
                   tx_hash, log_message, exc, log_exists, log_buf, log_disk,
                   trace, built>>

\* create_log_file up to its yield, then log_transaction_details
OpenLog ==
    /\ pc = "open_log"
    /\ log_exists' = TRUE
    /\ \E full \in BOOLEAN :
          LET text == << Entry("header", 0, NoValue, NoValue, NoValue),
                         Entry("details", 0, NoValue, NoValue,
                               total_needed(amount_wei, gas_price,
                                            recipient_addresses)) >>
          IN  IF full
              THEN log_disk' = text /\ log_buf' = <<>>
              ELSE log_buf' = text /\ log_disk' = <<>>
    /\ pc' = "loop"
    /\ UNCHANGED <<kvars, gvars>>
    /\ UNCHANGED <<key_file, wallet_files, test_mode, amount, sender_private_key,
                   latest_file, recipient_addresses, amount_wei, nonce,
                   sender_balance, gas_price, i, transaction, signed_txn, tx_hash,
                   log_message, exc, exit_status, error, base_nonce, trace, built>>

\* for i, recipient in enumerate(recipient_addresses, 1); leaving the loop
\* leaves the with block, which closes the log file
LoopNext ==
    /\ pc = "loop"
    /\ IF i < Len(recipient_addresses)
       THEN /\ i' = i + 1
            /\ pc' = "build"
            /\ UNCHANGED <<log_buf, log_disk, exit_status>>
       ELSE /\ log_disk' = log_disk \o log_buf
            /\ log_buf' = <<>>
            /\ exit_status' = 0
            /\ pc' = "done"
            /\ UNCHANGED i
    /\ UNCHANGED <<kvars, gvars>>
    /\ UNCHANGED <<key_file, wallet_files, test_mode, amount, sender_private_key,
                   latest_file, recipient_addresses, amount_wei, nonce,
                   sender_balance, gas_price, transaction, signed_txn, tx_hash,
                   log_message, exc, log_exists, error, base_nonce, trace, built>>

\* Line 179, with every recipient taking the real branch
next_step_always_real(simulate) == "sign"

\* Line 179: if test_mode ... else ...
next_step(simulate) == IF simulate THEN "simulate" ELSE "sign"

\* Lines 169-177
Build ==
    /\ pc = "build"
    /\ LET to == to_checksum_address(recipient_addresses[i])
       IN  IF to.ok
           THEN /\ transaction' = [to |-> to.value, value |-> amount_wei,
                                   nonce |-> nonce, gas |-> GAS_LIMIT,
                                   gasPrice |-> gas_price,
                                   chainId |-> POLYGON_CHAIN_ID]
                /\ built' = Append(built, [wallet |-> i, nonce |-> nonce])
                /\ pc' = next_step(test_mode)
                /\ UNCHANGED exc
           ELSE /\ exc' = to.value
                /\ pc' = "except"
                /\ UNCHANGED <<transaction, built>>
    /\ UNCHANGED <<kvars, gvars>>
    /\ UNCHANGED <<key_file, wallet_files, test_mode, amount, sender_private_key,
                   latest_file, recipient_addresses, amount_wei, nonce,
                   sender_balance, gas_price, i, signed_txn, tx_hash,
                   log_message, log_exists, log_buf, log_disk, exit_status,
                   error, base_nonce, trace>>

\* Lines 180-183
Simulate ==
    /\ pc = "simulate"
    /\ log_message' = Entry("outcome", i, "Simulated", recipient_addresses[i],
                            total_per_transaction(amount_wei, gas_price))
    /\ pc' = "record"
    /\ UNCHANGED <<kvars, gvars>>
    /\ UNCHANGED <<key_file, wallet_files, test_mode, amount, sender_private_key,
                   latest_file, recipient_addresses, amount_wei, nonce,
                   sender_balance, gas_price, i, transaction, signed_txn, tx_hash,
                   exc, log_exists, log_buf, log_disk, exit_status,
                   error, base_nonce, trace, built>>

\* Line 185
Sign ==
    /\ pc = "sign"
    /\ \E ok \in BOOLEAN :
          /\ trace' = Append(trace, Event("sign", ok))
          /\ IF ok
             THEN /\ signed_txn' = [rawTransaction |-> transaction]
                  /\ pc' = "send"
                  /\ UNCHANGED exc
             ELSE /\ exc' = "SigningFailed"
                  /\ pc' = "except"
                  /\ UNCHANGED signed_txn
    /\ UNCHANGED <<kvars, gvars>>
    /\ UNCHANGED <<key_file, wallet_files, test_mode, amount, sender_private_key,
                   latest_file, recipient_addresses, amount_wei, nonce,
                   sender_balance, gas_price, i, transaction, tx_hash,
                   log_message, log_exists, log_buf, log_disk, exit_status,
                   error, base_nonce, built>>

\* Line 186
Send ==
    /\ pc = "send"
    /\ \E ok \in BOOLEAN :
          /\ trace' = Append(trace, [Event("send", ok) EXCEPT
                                        !.nonce = signed_txn.rawTransaction.nonce])
          /\ IF ok
             THEN /\ tx_hash' = <<"hash", signed_txn.rawTransaction.to,
                                  signed_txn.rawTransaction.nonce>>
                  /\ pc' = "wait"
                  /\ UNCHANGED exc
             ELSE /\ exc' = "SubmissionFailed"
                  /\ pc' = "except"
                  /\ UNCHANGED tx_hash
    /\ UNCHANGED <<kvars, gvars>>
    /\ UNCHANGED <<key_file, wallet_files, test_mode, amount, sender_private_key,
                   latest_file, recipient_addresses, amount_wei, nonce,
                   sender_balance, gas_price, i, transaction, signed_txn,
                   log_message, log_exists, log_buf, log_disk, exit_status,
                   error, base_nonce, built>>

\* Lines 187-188, with the receipt wait not blocking on failure
Wait_unchecked ==
    /\ pc = "wait"
    /\ \E ok \in BOOLEAN :
          /\ trace' = Append(trace, Event("wait", ok))
          /\ log_message' = Entry("outcome", i, "Sent", recipient_addresses[i],
                                  tx_hash)
          /\ pc' = "record"
          /\ UNCHANGED exc
    /\ UNCHANGED <<kvars, gvars>>
    /\ UNCHANGED <<key_file, wallet_files, test_mode, amount, sender_private_key,
                   latest_file, recipient_addresses, amount_wei, nonce,
                   sender_balance, gas_price, i, transaction, signed_txn, tx_hash,
                   log_exists, log_buf, log_disk, exit_status,
                   error, base_nonce, built>>

\* Lines 187-188
Wait ==
    /\ pc = "wait"
    /\ \E ok \in BOOLEAN :
          /\ trace' = Append(trace, Event("wait", ok))
          /\ IF ok
             THEN /\ LET receipt == [transactionHash |-> tx_hash]
                     IN  log_message' = Entry("outcome", i, "Sent",
                                              recipient_addresses[i],
                                              receipt.transactionHash)
                  /\ pc' = "record"
                  /\ UNCHANGED exc
             ELSE /\ exc' = "ReceiptTimeout"
                  /\ pc' = "except"
                  /\ UNCHANGED log_message
    /\ UNCHANGED <<kvars, gvars>>
    /\ UNCHANGED <<key_file, wallet_files, test_mode, amount, sender_private_key,
                   latest_file, recipient_addresses, amount_wei, nonce,
                   sender_balance, gas_price, i, transaction, signed_txn, tx_hash,
                   log_exists, log_buf, log_disk, exit_status,
                   error, base_nonce, built>>

\* Lines 190-192
Record ==
    /\ pc = "record"
    /\ LogWrite(log_message)
    /\ trace' = Append(trace, Event("log", TRUE))
    /\ nonce' = nonce + 1
    /\ pc' = "loop"
    /\ UNCHANGED <<kvars, gvars>>
    /\ UNCHANGED <<key_file, wallet_files, test_mode, amount, sender_private_key,
                   latest_file, recipient_addresses, amount_wei,
                   sender_balance, gas_price, i, transaction, signed_txn, tx_hash,
                   log_message, exc, log_exists, exit_status,
                   error, base_nonce, built>>

\* Lines 194-197, with the exception leaving the loop
Except_propagates ==
    /\ pc = "except"
    /\ Abort(exc)
    /\ log_disk' = log_disk \o log_buf
    /\ log_buf' = <<>>
    /\ trace' = trace
    /\ exc' = NoValue
    /\ UNCHANGED <<kvars, gvars>>
    /\ UNCHANGED <<key_file, wallet_files, test_mode, amount, sender_private_key,
                   latest_file, recipient_addresses, amount_wei, nonce,
                   sender_balance, gas_price, i, transaction, signed_txn, tx_hash,
                   log_message, log_exists, base_nonce, built>>

\* Lines 194-197
Except ==
    /\ pc = "except"
    /\ LogWrite(Entry("outcome", i, "Failed", recipient_addresses[i], exc))
    /\ trace' = Append(trace, Event("log", FALSE))
    /\ exc' = NoValue
    /\ pc' = "loop"
    /\ UNCHANGED <<exit_status, error>>
    /\ UNCHANGED <<kvars, gvars>>
    /\ UNCHANGED <<key_file, wallet_files, test_mode, amount, sender_private_key,
                   latest_file, recipient_addresses, amount_wei, nonce,
                   sender_balance, gas_price, i, transaction, signed_txn, tx_hash,
                   log_message, log_exists, base_nonce, built>>

LoopPcs == {"loop", "build", "simulate", "sign", "send", "wait", "record", "except"}

\* The operator kills the process during the send loop: what is still in
\* the buffer of the process never reaches the file
Kill ==
    /\ pc \in LoopPcs
    /\ pc' = "killed"
    /\ log_buf' = <<>>
    /\ UNCHANGED <<kvars, gvars>>
    /\ UNCHANGED <<key_file, wallet_files, test_mode, amount, sender_private_key,
                   latest_file, recipient_addresses, amount_wei, nonce,
                   sender_balance, gas_price, i, transaction, signed_txn, tx_hash,
                   log_message, exc, log_exists, log_disk, exit_status,
                   error, base_nonce, trace, built>>

DNext ==
    \/ Connect
    \/ ValidateAmount
    \/ LoadPrivateKey
    \/ LoadRecipients
    \/ Preflight
    \/ OpenLog
    \/ LoopNext
    \/ Build
    \/ Simulate
    \/ Sign
    \/ Send
    \/ Wait
    \/ Record
    \/ Except
    \/ Kill

Init == DInit /\ KIdle /\ GIdle
Next == DNext
Spec == Init /\ [][Next]_vars

-----------------------------------------------------------------------------
(* Properties of the distributor *)

Outcomes(log) == SelectSeq(log, LAMBDA e : e.kind = "outcome")
Log == log_disk \o log_buf
Positions(op) == {j \in 1..Len(trace) : trace[j].op = op}
Running == pc \in LoopPcs \cup {"done", "killed"}
ItemErrors == {"InvalidAddress", "SigningFailed", "SubmissionFailed", "ReceiptTimeout"}

\* C1: the transaction built for the recipient at position k carries the
\* nonce base_nonce + (k - 1), whatever happened to the earlier recipients.
C1_NonceByPosition ==
    \A k \in 1..Len(built) : built[k].nonce = base_nonce + (built[k].wallet - 1)

\* C2: once the send loop has started a per-item failure never aborts the
\* batch: the recipients are processed once each, in input order, without
\* retry, and a completed run has logged one outcome entry per recipient,
\* a Failed entry carrying its error.
C2_BatchNeverAborts ==
    /\ pc = "aborted" => ~log_exists /\ i = 0 /\ trace = <<>>
    /\ pc \in LoopPcs \cup {"done"} =>
          LET o == Outcomes(Log)
          IN  /\ Len(o) = IF pc \in {"loop", "done"} THEN i ELSE i - 1
              /\ \A k \in 1..Len(o) :
                    /\ o[k].wallet = k
                    /\ o[k].recipient = recipient_addresses[k]
                    /\ o[k].status \in {"Sent", "Simulated", "Failed"}
                    /\ o[k].status = "Failed" => o[k].info \in ItemErrors
              /\ \A k \in 1..Len(recipient_addresses) :
                    /\ Cardinality({j \in Positions("send") : trace[j].wallet = k}) <= 1
                    /\ Cardinality({j \in Positions("log") : trace[j].wallet = k}) <= 1
    /\ pc = "done" =>
          /\ i = Len(recipient_addresses)
          /\ log_buf = <<>>
          /\ Len(Outcomes(log_disk)) = Len(recipient_addresses)

\* A completed run whose first recipient failed and whose second was sent
C2_Witness ==
    /\ pc = "done"
    /\ Len(Outcomes(log_disk)) >= 2
    /\ Outcomes(log_disk)[1].status = "Failed"
    /\ Outcomes(log_disk)[2].status = "Sent"

\* C3: with total_cost = recipient_count * (amount_wei + gas_price * GAS_LIMIT),
\* a balance below total_cost aborts the run with the insufficient-balance
\* error and a non-zero exit status before any transaction is built and
\* before the log file is created; otherwise the run goes on to the loop.
C3_PreflightBalance ==
    LET total_cost == Len(recipient_addresses) * (amount_wei + gas_price * GAS_LIMIT)
    IN  base_nonce >= 0 =>
          /\ sender_balance < total_cost =>
                /\ pc = "aborted"
                /\ error = "InsufficientBalance"
                /\ exit_status = 1
                /\ built = <<>> /\ trace = <<>> /\ transaction = NoValue
                /\ ~log_exists /\ Log = <<>>
          /\ sender_balance >= total_cost => Running \/ pc = "open_log"

\* A run aborted for a balance one wei short of the total cost
C3_Witness ==
    /\ pc = "aborted"
    /\ error = "InsufficientBalance"
    /\ Len(recipient_addresses) = 2
    /\ sender_balance + 1 = 2 * (amount_wei + gas_price * GAS_LIMIT)

\* C4: in a simulated run no transaction is signed or submitted and no
\* receipt is waited for; every outcome is Simulated or Failed, never Sent.
C4_SimulateNeverSends ==
    test_mode =>
        /\ \A j \in 1..Len(trace) : trace[j].op \notin {"sign", "send", "wait"}
        /\ signed_txn = NoValue
        /\ tx_hash = NoValue
        /\ \A k \in 1..Len(Log) :
              Log[k].kind = "outcome" => Log[k].status \in {"Simulated", "Failed"}

\* A completed simulated run with a simulated and a failed recipient
C4_Witness ==
    /\ test_mode
    /\ pc = "done"
    /\ \E k \in 1..Len(log_disk) : log_disk[k].status = "Simulated"
    /\ \E k \in 1..Len(log_disk) : log_disk[k].status = "Failed"

\* C5: when the process is killed after k recipients were completed, the
\* log file on disk holds the outcome entries of exactly those k recipients.
C5_LogDurable ==
    pc = "killed" =>
        /\ Len(Outcomes(log_disk)) = Cardinality(Positions("log"))
        /\ \A k \in 1..Len(Outcomes(log_disk)) : Outcomes(log_disk)[k].wallet = k

\* C9: no two transactions handed to send_raw_transaction in one run carry
\* the same nonce.
C9_SubmittedNoncesDistinct ==
    \A j1, j2 \in Positions("send") : j1 # j2 => trace[j1].nonce # trace[j2].nonce

\* C10: in a real run a recipient is recorded as Sent, with the hash of the
\* receipt, only after its transaction was signed, submitted and confirmed,
\* in that order and without error; and no transaction is submitted before
\* the outcome of every earlier recipient has been recorded.
C10_SendOrder ==
    /\ \A k \in 1..Len(Log) :
          (Log[k].kind = "outcome" /\ Log[k].status = "Sent") =>
              \E j \in 1..Len(trace) :
                  /\ j + 3 <= Len(trace)
                  /\ \A d \in 0..3 : trace[j + d].wallet = Log[k].wallet
                  /\ \A d \in 0..3 : trace[j + d].ok
                  /\ trace[j].op = "sign"
                  /\ trace[j + 1].op = "send"
                  /\ trace[j + 2].op = "wait"
                  /\ trace[j + 3].op = "log"
                  /\ Log[k].info = <<"hash",
                                     to_checksum_address(Log[k].recipient).value,
                                     trace[j + 1].nonce>>
    /\ \A j \in Positions("send") :
          \A w \in 1..(trace[j].wallet - 1) :
              \E h \in Positions("log") : h < j /\ trace[h].wallet = w
    /\ pc = "record" /\ ~test_mode =>
          /\ Len(trace) >= 3
          /\ trace[Len(trace)].op = "wait" /\ trace[Len(trace)].ok
          /\ trace[Len(trace)].wallet = i

\* A completed real run in which two recipients were sent
C10_Witness ==
    /\ pc = "done"
    /\ ~test_mode
    /\ Cardinality({k \in 1..Len(log_disk) : log_disk[k].status = "Sent"}) >= 2

-----------------------------------------------------------------------------
(* load_private_key on its own, over a wider range of credential files *)

\* s with the character at position p replaced by c
Replace(s, p, c) == [k \in 1..Len(s) |-> IF k = p THEN c ELSE s[k]]

KeyBodies ==
    LET plain == {Repeat("a", n) : n \in (HEX_LENGTH - KeySlack)..(HEX_LENGTH + KeySlack)}
    IN  plain \cup {Replace(b, p, c) : b \in plain, p \in 1..(HEX_LENGTH - KeySlack),
                                      c \in {"g", " ", "F"}}

KeyContents ==
    {NoFile} \cup {File(pre \o b \o post) : pre \in {<<>>, <<"0", "x">>, <<" ">>},
                                            b \in KeyBodies,
                                            post \in {<<>>, <<"\n">>}}

KInit ==
    /\ k_pc = "call"
    /\ k_file \in KeyContents
    /\ kf_result = Raise(NoValue)

CallLoadPrivateKey ==
    /\ k_pc = "call"
    /\ kf_result' = load_private_key(k_file)
    /\ k_pc' = "returned"
    /\ UNCHANGED <<k_file, dvars, gvars>>

KNext == CallLoadPrivateKey

InitKey == KInit /\ DIdle /\ GIdle
SpecKey == InitKey /\ [][KNext]_vars

\* The content once all whitespace and an optional leading 0x are removed
Normalized(s) ==
    LET t == SelectSeq(s, LAMBDA c : c \notin Whitespace)
    IN  IF StartsWith0x(t) THEN SubSeq(t, 3, Len(t)) ELSE t

WellFormedKey(s) ==
    /\ Len(Normalized(s)) = HEX_LENGTH
    /\ \A k \in 1..Len(Normalized(s)) : Normalized(s)[k] \in HexChars

\* C6: load_private_key accepts the credential file exactly when its
\* content, without whitespace and an optional leading 0x, is 64 hex
\* characters; any other content is rejected as an invalid private key
\* format and a missing file as a missing credential file.
C6_KeyValidation ==
    k_pc = "returned" =>
        IF k_file = NoFile
        THEN ~kf_result.ok /\ kf_result.value = "MissingCredentialFile"
        ELSE IF WellFormedKey(k_file.content)
        THEN kf_result.ok
        ELSE ~kf_result.ok /\ kf_result.value = "InvalidPrivateKeyFormat"

-----------------------------------------------------------------------------
(* The generator: __main__, generate_wallet and generate_multiple_wallets *)

Mnemonics == {"m1", "m2"}

\* account.address and account.key.hex() of the account derived from the seed
address_of(m) == IF m = "m1" THEN "0xAb01" ELSE "0xCd02"
key_of(m) == <<"0x", m>>

\* open(name, 'w') followed by a dump: the file is created or replaced
WriteFile(files, name, text) ==
    {f \in files : f.name # name} \cup {[name |-> name, text |-> text]}

\* Line 100, with the wallet number left out of the name
wallet_filename_unnumbered(now, wallet_number) == <<"wallet", now, 0>>

\* Line 100: 0 stands for the name without a number
wallet_filename(now, wallet_number) ==
    IF wallet_number # 0 THEN <<"wallet", now, wallet_number>>
    ELSE <<"wallet", now, 0>>

\* Lines 90-96; wallet_number 0 stands for None
wallet_data_of(wallet_number, m, now) ==
    [wallet_number |-> IF wallet_number # 0 THEN wallet_number ELSE 1,
     public_key |-> address_of(m),
     private_key |-> key_of(m),
     mnemonic |-> m,
     created_at |-> now]

\* Line 124, with the address put in front
append_address_front(addresses, wallet_data) ==
    <<wallet_data["public_key"]>> \o addresses

\* Line 124
append_address(addresses, wallet_data) ==
    Append(addresses, wallet_data["public_key"])

GInit ==
    /\ g_pc = "main"
    /\ g_count \in 0..MaxCount
    /\ g_sample \in BOOLEAN
    /\ g_i = 0
    /\ g_clock = 0
    /\ g_timestamp = 0
    /\ all_wallets = <<>>
    /\ public_addresses = <<>>
    /\ g_files = {}

\* Lines 167-168
GSample ==
    /\ g_pc = "main"
    /\ g_sample
    /\ g_files' = WriteFile(g_files, <<"sample_wallet_card", 0, 0>>, <<"0x1234">>)
    /\ g_pc' = "done"
    /\ UNCHANGED <<g_count, g_sample, g_i, g_clock, g_timestamp, all_wallets,
                   public_addresses, dvars, kvars>>

\* Lines 169-170
GRejectCount ==
    /\ g_pc = "main"
    /\ ~g_sample
    /\ g_count < 1
    /\ g_pc' = "done"
    /\ UNCHANGED <<g_count, g_sample, g_i, g_clock, g_timestamp, all_wallets,
                   public_addresses, g_files, dvars, kvars>>

\* Lines 172-173: generate_wallet() without a number
GSingleWallet ==
    /\ g_pc = "main"
    /\ ~g_sample
    /\ g_count = 1
    /\ \E m \in Mnemonics :
          g_files' = WriteFile(g_files, wallet_filename(g_clock, 0),
                               DumpObject(wallet_data_of(0, m, g_clock), WalletKeys))
    /\ g_pc' = "single_card"
    /\ UNCHANGED <<g_count, g_sample, g_i, g_clock, g_timestamp, all_wallets,
                   public_addresses, dvars, kvars>>

\* Lines 176-181
GSingleCard ==
    /\ g_pc = "single_card"
    /\ g_files' = WriteFile(g_files, <<"wallet_card", g_clock, 0>>, <<"card">>)
    /\ g_pc' = "done"
    /\ UNCHANGED <<g_count, g_sample, g_i, g_clock, g_timestamp, all_wallets,
                   public_addresses, dvars, kvars>>

\* Lines 191-192 and 112-119
GMultiStart ==
    /\ g_pc = "main"
    /\ ~g_sample
    /\ g_count > 1
    /\ g_timestamp' = g_clock
    /\ all_wallets' = <<>>
    /\ public_addresses' = <<>>
    /\ g_i' = 0
    /\ g_pc' = "loop"
    /\ UNCHANGED <<g_count, g_sample, g_clock, g_files, dvars, kvars>>

\* Lines 121-137: one iteration of for i in range(1, count + 1)
GIterate ==
    /\ g_pc = "loop"
    /\ g_i < g_count
    /\ g_i' = g_i + 1
    /\ \E m \in Mnemonics :
          LET wallet_data == wallet_data_of(g_i', m, g_clock)
          IN  /\ g_files' = WriteFile(g_files, wallet_filename(g_clock, g_i'),
                                      DumpObject(wallet_data, WalletKeys))
              /\ all_wallets' = Append(all_wallets, wallet_data)
              /\ public_addresses' = append_address(public_addresses, wallet_data)
    /\ UNCHANGED <<g_pc, g_count, g_sample, g_clock, g_timestamp, dvars, kvars>>

\* Lines 140-152
GSave ==
    /\ g_pc = "loop"
    /\ g_i >= g_count
    /\ g_files' =
          WriteFile(
            WriteFile(
              WriteFile(g_files, <<"wallet_cards", g_timestamp, 0>>, <<"cards">>),
              <<"all_wallets", g_timestamp, 0>>, json_dump_list(all_wallets)),
            <<"public_addresses", g_timestamp, 0>>,
            DumpObject([addresses |-> public_addresses,
                        count |-> Len(public_addresses),
                        created_at |-> g_clock], AddressesKeys))
    /\ g_pc' = "done"
    /\ UNCHANGED <<g_count, g_sample, g_i, g_clock, g_timestamp, all_wallets,
                   public_addresses, dvars, kvars>>

\* datetime.now() advances between the steps of a run
GTick ==
    /\ g_pc \in {"main", "loop", "single_card"}
    /\ g_clock < MaxClock
    /\ g_clock' = g_clock + 1
    /\ UNCHANGED <<g_pc, g_count, g_sample, g_i, g_timestamp, all_wallets,
                   public_addresses, g_files, dvars, kvars>>

GNext ==
    \/ GSample
    \/ GRejectCount
    \/ GSingleWallet
    \/ GSingleCard
    \/ GMultiStart
    \/ GIterate
    \/ GSave
    \/ GTick

InitGen == GInit /\ DIdle /\ KIdle
SpecGen == InitGen /\ [][GNext]_vars

FilesOfKind(kind) == {f \in g_files : f.name[1] = kind}

CountsMatch(n) ==
    /\ Cardinality(FilesOfKind("wallet")) = n
    /\ Cardinality(FilesOfKind("all_wallets")) = 1
    /\ \A f \in FilesOfKind("all_wallets") : Len(json_load_list(f.text)) = n
    /\ Cardinality(FilesOfKind("public_addresses")) = 1
    /\ \A f \in FilesOfKind("public_addresses") :
          /\ Len(LoadObject(f.text)["addresses"]) = n
          /\ LoadObject(f.text)["count"] = n

C8_RoundTrip ==
    g_pc = "done" =>
        \A f \in FilesOfKind("all_wallets"), a \in FilesOfKind("public_addresses") :
            public_keys_of(json_load_list(f.text)) = LoadObject(a.text)["addresses"]

\* A completed run whose aggregate file holds two different addresses
C8_Witness ==
    /\ g_pc = "done"
    /\ \E f \in FilesOfKind("all_wallets") :
          /\ Len(f.text) >= 2
          /\ public_keys_of(json_load_list(f.text))[1] #
                public_keys_of(json_load_list(f.text))[2]
    /\ FilesOfKind("public_addresses") # {}

====
